---- MODULE Spec2Model ----
(***************************************************************************)
(* Model of hbnmigration.from_ripple.to_redcap: one run of main, moving    *)
(* "Send to RedCap" participants from Ripple into REDCap and writing the   *)
(* status back, together with the pure table functions the run is made of. *)
(* Spec follows one run; SpecColumns and SpecPush follow set_redcap_columns *)
(* and push_to_redcap on their own; SpecRuns follows runs one after        *)
(* another against the same Ripple and REDCap; SpecOverlap follows a run   *)
(* with a second run working in the same directory.                        *)
(*                                                                         *)
(* A DataFrame is a record [columns, rows]: columns is the ordered list of *)
(* contact groups that have a ".contactType"/".information" column pair,   *)
(* rows is the ordered list of rows, each carrying its index label.        *)
(***************************************************************************)
EXTENDS Integers, Sequences, FiniteSets, TLC

\* ------------------------------------------------------------------ bounds
\* rows returned by the Ripple exports of one run, all studies together
MaxRows == 3
\* contact groups (contact.<n>.infos.<m>) a Ripple export can carry
MaxGroups == 2

\* --------------------------------------------------------------- constants
Main == "HBN - Main"
Waitlist == "HBN - Waitlist"
\* iteration order of the studies requested by request_potential_participants
StudyOrder == <<Main, Waitlist>>
SendToRedCap == "Send to RedCap"
CreatedInRedcap == "consent_form_created_in_redcap"
NaN == "NaN"
\* the value of an absent (NaN) information cell; address g > 0 is the
\* information cell of contact group g
NoAddr == 0
redcap_update_file == "redcap_update_file"
redcap_import_file == "redcap_import_file"

\* ----------------------------------------------------------- input domains
Groups == 1..MaxGroups
ContactTypes == {"email", "phone", NaN}
\* customId cells as the export delivers them: strings of characters
CustomIds == {<<"7">>, <<"1", "2">>, <<"1", "x">>}
ConsentForms == {SendToRedCap, "Pending"}
\* mrn and record_id values held by REDCap
DestMrns == {7, 12}
DestRecordIds == {1, 2}

\* ------------------------------------------------------------ small helpers
Range(s) == {s[i] : i \in 1..Len(s)}

RECURSIVE SetToSortedSeq(_)
SetToSortedSeq(S) ==
    IF S = {} THEN <<>>
    ELSE LET m == CHOOSE x \in S : \A y \in S : x <= y
         IN <<m>> \o SetToSortedSeq(S \ {m})

\* --------------------------------------------------- int(str): astype(int)
Digits == <<"0", "1", "2", "3", "4", "5", "6", "7", "8", "9">>
IsDigit(c) == \E d \in 1..10 : Digits[d] = c
DigitValue(c) == (CHOOSE d \in 1..10 : Digits[d] = c) - 1
IsNumeric(s) == Len(s) > 0 /\ \A i \in 1..Len(s) : IsDigit(s[i])

RECURSIVE ToInt(_)
ToInt(s) ==
    IF s = <<>> THEN 0
    ELSE 10 * ToInt(SubSeq(s, 1, Len(s) - 1)) + DigitValue(s[Len(s)])

\* ------------------------------------------------------------ Ripple export
\* One row of a Ripple export: the cells of globalId, customId,
\* cv.consent_form, importType and of every contact group.  A group the
\* participant does not have is NaN in both cells.
SourceRow(study, label, customId, consent, types) ==
    [label       |-> label,
     globalId    |-> <<study, label>>,
     customId    |-> customId,
     consent     |-> consent,
     importType  |-> study,
     contactType |-> types,
     information |-> [g \in DOMAIN types |-> IF types[g] = NaN THEN NoAddr ELSE g]]

\* The contact columns of an export: the groups some exported row has, in
\* ascending order.
ExportColumns(rows) ==
    SetToSortedSeq({g \in Groups : \E i \in 1..Len(rows) : rows[i].contactType[g] # NaN})

\* The exports a study can answer with: n rows labelled 0..n-1 (RangeIndex).
ExportsOf(study, n, groups, types) ==
    LET cells == [Groups -> types \cup {NaN}]
        usable == {t \in cells : \A g \in Groups : IF g \in groups THEN t[g] \in types
                                                                     ELSE t[g] = NaN}
        pick == [1..n -> CustomIds \X ConsentForms \X usable]
    IN {LET rows == [i \in 1..n |-> SourceRow(study, i - 1, p[i][1], p[i][2], p[i][3])]
        IN [columns |-> ExportColumns(rows), rows |-> rows] : p \in pick}

\* ---------------------------------------------------------------- pd.concat
\* Columns in order of first appearance, rows appended with their labels.
concat_columns(left, right) ==
    left \o SelectSeq(right, LAMBDA c : c \notin Range(left))

RECURSIVE concat(_)
concat(frames) ==
    IF Len(frames) = 0 THEN [columns |-> <<>>, rows |-> <<>>]
    ELSE LET head == concat(SubSeq(frames, 1, Len(frames) - 1))
             last == frames[Len(frames)]
         IN [columns |-> concat_columns(head.columns, last.columns),
             rows    |-> head.rows \o last.rows]

\* ------------------------------------------- request_potential_participants
\* request_potential_participants without the check of the filtered frame
request_without_filter_check(exports) ==
    IF Len(exports) = 0 THEN [exc |-> "ValueError", df |-> concat(<<>>)]
    ELSE LET all == concat(exports)
             filtered_rows == SelectSeq(all.rows, LAMBDA r : r.consent = SendToRedCap)
         IN IF Len(all.rows) = 0 THEN [exc |-> "NoData", df |-> all]
            ELSE [exc |-> "none",
                  df  |-> [columns |-> all.columns, rows |-> filtered_rows]]

\* exports: the frames returned by export_from_ripple, one per requested study
request_potential_participants(exports) ==
    IF Len(exports) = 0 THEN [exc |-> "ValueError", df |-> concat(<<>>)]
    ELSE LET all == concat(exports)
             filtered_rows == SelectSeq(all.rows, LAMBDA r : r.consent = SendToRedCap)
         IN IF Len(all.rows) = 0 THEN [exc |-> "NoData", df |-> all]
            ELSE IF Len(filtered_rows) = 0 THEN [exc |-> "NoData", df |-> all]
            ELSE [exc |-> "none",
                  df  |-> [columns |-> all.columns, rows |-> filtered_rows]]

\* ------------------------------------------------------- set_redcap_columns
\* ".contactType" -> ".information" on a column name keeps the group prefix
information_column(col) == col

\* is_email.loc[row.name].any()
any_email(df, row) == \E i \in 1..Len(df.columns) : row.contactType[df.columns[i]] = "email"

\* is_email.idxmax(axis=1): the first column, in column order, holding the
\* maximum; the first column of all when no cell is True
first_match(df, row) ==
    IF any_email(df, row)
    THEN df.columns[CHOOSE i \in 1..Len(df.columns) :
                        /\ row.contactType[df.columns[i]] = "email"
                        /\ \A j \in 1..(i - 1) : row.contactType[df.columns[j]] # "email"]
    ELSE df.columns[1]

email_consent(df, row) ==
    IF any_email(df, row)
    THEN row.information[information_column(first_match(df, row))]
    ELSE NoAddr

\* row.name selects one row only when the label is unique in the frame
duplicated_label(df, row) ==
    Cardinality({i \in 1..Len(df.rows) : df.rows[i].label = row.label}) > 1

\* the projected rows as they stand, repeats included
keep_duplicates(rows) == rows

RECURSIVE drop_duplicates(_)
drop_duplicates(rows) ==
    IF Len(rows) = 0 THEN <<>>
    ELSE LET front == drop_duplicates(SubSeq(rows, 1, Len(rows) - 1))
             last == rows[Len(rows)]
         IN IF last \in Range(front) THEN front ELSE Append(front, last)

\* a coercion that reads the last character only
to_mrn_last_digit(customId) == DigitValue(customId[Len(customId)])

to_mrn(customId) == ToInt(customId)

\* set_redcap_columns working on ripple_df itself: the caller's frame has
\* lost its customId column to the rename when the call ends
input_edited_in_place(ripple_df) ==
    [columns |-> ripple_df.columns,
     rows    |-> [i \in 1..Len(ripple_df.rows) |->
                     [ripple_df.rows[i] EXCEPT !.customId = <<>>]]]

\* the caller's frame when set_redcap_columns ends: line 89 makes
\* redcap_df an independent copy, and every edit of 104-119 is made on it
input_after_set_redcap_columns(ripple_df) == ripple_df

set_redcap_columns(ripple_df) ==
    LET n == Len(ripple_df.rows)
    IN IF n > 0 /\ Len(ripple_df.columns) = 0
       THEN [exc |-> "ValueError", rows |-> <<>>]
       ELSE IF \E i \in 1..n : duplicated_label(ripple_df, ripple_df.rows[i])
       THEN [exc |-> "ValueError", rows |-> <<>>]
       ELSE IF \E i \in 1..n : ~IsNumeric(ripple_df.rows[i].customId)
       THEN [exc |-> "ValueError", rows |-> <<>>]
       ELSE [exc  |-> "none",
             rows |-> drop_duplicates(
                 [i \in 1..n |->
                     [record_id     |-> to_mrn(ripple_df.rows[i].customId),
                      mrn           |-> to_mrn(ripple_df.rows[i].customId),
                      email_consent |-> email_consent(ripple_df, ripple_df.rows[i])]])]

\* -------------------------------------------- get_redcap_subjects_to_update
\* What fetch_api_data can hand back: a frame with the columns mrn and
\* record_id, or the column-less pd.DataFrame() it returns for a failed call
\* or an empty response.
\* record_id is the key of a REDCap record: the rows of a lookup have
\* distinct record_ids and come in record_id order; two records can hold
\* the same mrn.
Lookups ==
    {[empty |-> TRUE, rows |-> <<>>]} \cup
    {[empty |-> FALSE,
      rows  |-> LET ids == SetToSortedSeq(DOMAIN held)
                IN [i \in 1..Len(ids) |-> [mrn |-> held[ids[i]], record_id |-> ids[i]]]] :
        held \in UNION {[ids -> DestMrns] : ids \in SUBSET DestRecordIds}}

\* df["mrn"].isin(df_redcap_consent_instruments["mrn"])
isin(mrn, dest) == \E i \in 1..Len(dest) : dest[i].mrn = mrn

\* a merge that leaves the guessed record_id in place
merge_row_keeping_guess(row, dest) ==
    LET hits == SelectSeq(dest, LAMBDA d : d.mrn = row.mrn)
    IN [i \in 1..Len(hits) |->
           [record_id     |-> row.record_id,
            mrn           |-> row.mrn,
            email_consent |-> row.email_consent]]

\* one row of df joined to the rows of dest with the same mrn (how="left"):
\* one output row per matching dest row, in dest order
merge_row(row, dest) ==
    LET hits == SelectSeq(dest, LAMBDA d : d.mrn = row.mrn)
    IN [i \in 1..Len(hits) |->
           [record_id     |-> hits[i].record_id,
            mrn           |-> row.mrn,
            email_consent |-> row.email_consent]]

RECURSIVE merge(_, _)
merge(rows, dest) ==
    IF Len(rows) = 0 THEN <<>>
    ELSE merge(SubSeq(rows, 1, Len(rows) - 1), dest) \o merge_row(rows[Len(rows)], dest)

\* a reconciliation that takes a lookup without columns for an empty REDCap
get_redcap_subjects_ignoring_failure(df, lookup) ==
    [exc          |-> "none",
     to_update    |-> merge(SelectSeq(df, LAMBDA r : isin(r.mrn, lookup.rows)), lookup.rows),
     new_subjects |-> SelectSeq(df, LAMBDA r : ~isin(r.mrn, lookup.rows))]

get_redcap_subjects_to_update(df, lookup) ==
    IF lookup.empty
    THEN [exc |-> "KeyError", to_update |-> <<>>, new_subjects |-> <<>>]
    ELSE [exc          |-> "none",
          to_update    |-> merge(SelectSeq(df, LAMBDA r : isin(r.mrn, lookup.rows)),
                                 lookup.rows),
          new_subjects |-> SelectSeq(df, LAMBDA r : ~isin(r.mrn, lookup.rows))]

\* ----------------------------------------------------------------- files
xlsx_path(ripple_study) == ripple_study \o ".xlsx"
Paths == {redcap_update_file, redcap_import_file} \cup {xlsx_path(s) : s \in Range(StudyOrder)}
Absent == [exists |-> FALSE, rows |-> <<>>]
File(rows) == [exists |-> TRUE, rows |-> rows]

\* DataFrame.to_csv / to_excel into path
write(fs, path, rows) == [fs EXCEPT ![path] = File(rows)]

\* prepare_redcap_data: a partition is saved only when it has rows
save_partitions(fs, upd, new) ==
    LET fs1 == IF Len(upd) > 0 THEN write(fs, redcap_update_file, upd) ELSE fs
    IN IF Len(new) > 0 THEN write(fs1, redcap_import_file, new) ELSE fs1

\* ------------------------------------------------- prepare_ripple_to_ripple
\* selected_ripple_df["importType"].unique(): order of first appearance
\* the importType column as it stands, repeats included
unique_keeping_repeats(values) == values

RECURSIVE unique(_)
unique(values) ==
    IF Len(values) = 0 THEN <<>>
    ELSE LET front == unique(SubSeq(values, 1, Len(values) - 1))
             last == values[Len(values)]
         IN IF last \in Range(front) THEN front ELSE Append(front, last)

import_types(df) == unique([i \in 1..Len(df.rows) |-> df.rows[i].importType])

\* the rows of every study written into the file of each study
ripple_rows_unfiltered(df, ripple_study) ==
    [i \in 1..Len(df.rows) |->
        [globalId   |-> df.rows[i].globalId,
         consent    |-> CreatedInRedcap,
         importType |-> df.rows[i].importType]]

\* the rows of one study written with the label they came with
ripple_rows_keeping_label(df, ripple_study) ==
    LET mine == SelectSeq(df.rows, LAMBDA r : r.importType = ripple_study)
    IN [i \in 1..Len(mine) |->
           [globalId   |-> mine[i].globalId,
            consent    |-> mine[i].consent,
            importType |-> mine[i].importType]]

\* the rows of one study, reduced to globalId, cv.consent_form, importType
\* and relabelled
ripple_rows(df, ripple_study) ==
    LET mine == SelectSeq(df.rows, LAMBDA r : r.importType = ripple_study)
    IN [i \in 1..Len(mine) |->
           [globalId   |-> mine[i].globalId,
            consent    |-> CreatedInRedcap,
            importType |-> mine[i].importType]]

RECURSIVE write_ripple_files(_, _, _, _)
\* the first k iterations of the loop over the studies
write_ripple_files(fs, df, studies, k) ==
    IF k = 0 THEN fs
    ELSE write(write_ripple_files(fs, df, studies, k - 1),
               xlsx_path(studies[k]), ripple_rows(df, studies[k]))

\* ------------------------------------------------------------------ cleanup
cleanup_targets(temp_files) ==
    {redcap_import_file, redcap_update_file} \cup Range(temp_files)

\* a cleanup that deletes the files it is given and no other
cleanup_given_only(fs, temp_files) ==
    [p \in DOMAIN fs |-> IF p \in Range(temp_files) THEN Absent ELSE fs[p]]

cleanup(fs, temp_files) ==
    [p \in DOMAIN fs |-> IF p \in cleanup_targets(temp_files) THEN Absent ELSE fs[p]]

\* ====================================================================
\* State
\* ====================================================================
VARIABLES
    pc,                       \* where the run of main stands
    study_ids,                \* the configured studies (ripple_variables.study_ids)
    exc,                      \* the exception in flight, "none" when there is none
    ripple_df,                \* request_potential_participants' local: the
                              \* cv.consent_form column of the concatenated exports
    outcome,                  \* "running", then "returned" or "raised"
    filtered_ripple_df,       \* main's local: the extracted batch
    copy_selected_redcap_df,  \* prepare_redcap_data's local: the projected rows
    lookup,                   \* df_redcap_consent_instruments
    to_update,                \* the update partition
    new_subjects,             \* the create partition
    fs,                       \* the files on disk: path -> file
    ripple_import_files,      \* main's local: <<study, path>> pairs, in dict order
    invoked,                  \* the calls main has made, in order
    posts,                    \* the HTTP requests sent to REDCap and Ripple, in order
    run,                      \* the number of the run of main in flight
    before,                   \* Ripple and REDCap as they stood when the run started
    other,                    \* where a second, overlapping run of main stands
    project_status,           \* main's parameter: "dev" or "prod"
    tokens,                   \* the REDCap token the lookup was made with and the
                              \* token main gave to push_to_redcap
    imported                  \* a call of ImportWithFallback: its arguments' fate
                              \* and what it ended in

vars == <<pc, study_ids, exc, ripple_df, outcome, filtered_ripple_df, copy_selected_redcap_df,
          lookup, to_update, new_subjects, fs, ripple_import_files, invoked, posts,
          run, before, other, project_status, tokens, imported>>

NoFrame == [columns |-> <<>>, rows |-> <<>>]
NoLookup == [empty |-> TRUE, rows |-> <<>>]
Unread == [read |-> FALSE, consent_form |-> <<>>]
\* a single run: the remote systems are not followed from run to run, and no
\* other run overlaps
Untracked == [ripple |-> <<>>, redcap |-> <<>>, sent |-> {}, written |-> {}]
NoOther == [pc |-> "absent", pushed |-> <<>>, files |-> <<>>]
\* no REDCap call has been given a token yet
NoTokens == [lookup |-> "", push |-> ""]
\* no call of ImportWithFallback is followed
NotImported == [method |-> "", name |-> "", primary |-> "", fallback |-> "",
                exc |-> "", value |-> ""]

\* redcap_variables.Tokens: the tokens of the two REDCap projects
pid247 == "pid247"
pid757 == "pid757"

\* main, lines 311-314 and 320: project[project_status]["token"]
project_token(status) == IF status = "dev" THEN pid757 ELSE pid247

\* get_redcap_subjects_to_update, line 153: the token of the lookup
lookup_token(status) == pid247

\* the contact cells the exports of a run of main carry
RunGroups == {1}
RunTypes == {"email", "phone"}

\* The exports one study can answer a run of main with.  A row that is not
\* marked "Send to RedCap" is dropped by the filter before any other cell of
\* it is read, so such rows are drawn with one content only.
RunExportsOf(study, n) ==
    {e \in ExportsOf(study, n, RunGroups, RunTypes) :
        \A i \in 1..n : e.rows[i].consent # SendToRedCap =>
                            /\ e.rows[i].customId = <<"7">>
                            /\ e.rows[i].contactType[1] = "email"}

\* every way the configured studies can answer one run: one export per
\* configured study, in the order of StudyOrder, budget rows at most in all
RECURSIVE RunExports(_, _)
RunExports(studies, budget) ==
    IF Len(studies) = 0 THEN {<<>>}
    ELSE UNION {LET rests == RunExports(Tail(studies), budget - n)
                    firsts == RunExportsOf(studies[1], n)
                IN {<<e>> \o rest : e \in firsts, rest \in rests}
                : n \in 0..budget}

configured(ids) == SelectSeq(StudyOrder, LAMBDA s : s \in ids)

Init ==
    /\ pc = "request"
    /\ study_ids \in SUBSET Range(StudyOrder)
    /\ exc = "none"
    /\ ripple_df = Unread
    /\ outcome = "running"
    /\ filtered_ripple_df = NoFrame
    /\ copy_selected_redcap_df = <<>>
    /\ lookup = NoLookup
    /\ to_update = <<>>
    /\ new_subjects = <<>>
    /\ fs = [p \in Paths |-> Absent]
    /\ ripple_import_files = <<>>
    /\ invoked = <<>>
    /\ posts = <<>>
    /\ run = 1
    /\ project_status = "prod"
    /\ tokens = NoTokens
    /\ imported = NotImported
    /\ before = Untracked
    /\ other = NoOther

consent_column(df) == [i \in 1..Len(df.rows) |-> df.rows[i].consent]

\* main without its finally block: a failed stage ends the run at once
after_without_finally(e, next) == IF e = "none" THEN next ELSE "exit"

\* a stage of main ended: on to the next stage, or to the finally block
after(e, next) == IF e = "none" THEN next ELSE "cleanup"

\* ------------------------------------------------------------------ main
\* main, line 317: request_potential_participants(), the studies answering
\* with one of answers
RequestWith(answers) ==
    /\ pc = "request"
    /\ \E exports \in answers :
         LET got == request_potential_participants(exports)
         IN /\ exc' = got.exc
            /\ ripple_df' = IF Len(exports) = 0 THEN Unread
                            ELSE [read         |-> TRUE,
                                  consent_form |-> consent_column(concat(exports))]
            /\ filtered_ripple_df' = IF got.exc = "none" THEN got.df ELSE NoFrame
            /\ pc' = after(got.exc, "prepare_redcap")
    /\ invoked' = Append(invoked, "request_potential_participants")
    /\ UNCHANGED <<study_ids, outcome, copy_selected_redcap_df, lookup, to_update,
                   new_subjects, fs, ripple_import_files, posts>>
    /\ UNCHANGED <<run, before, other, project_status, imported>>
    /\ UNCHANGED tokens

\* main, line 317, the exports being any the bounds allow
Request == RequestWith(RunExports(configured(study_ids), MaxRows))

\* main, line 317: an export call fails at transport level
RequestFails ==
    /\ pc = "request"
    /\ Len(configured(study_ids)) > 0
    /\ exc' = "RequestException"
    /\ pc' = after("RequestException", "prepare_redcap")
    /\ invoked' = Append(invoked, "request_potential_participants")
    /\ UNCHANGED <<study_ids, ripple_df, outcome, filtered_ripple_df, copy_selected_redcap_df,
                   lookup, to_update, new_subjects, fs, ripple_import_files, posts>>
    /\ UNCHANGED <<run, before, other, project_status, imported>>
    /\ UNCHANGED tokens

\* main, line 318: prepare_redcap_data(filtered_ripple_df), fetch_api_data
\* handing back one of answers
PrepareRedcapDataWith(answers) ==
    /\ pc = "prepare_redcap"
    /\ invoked' = Append(invoked, "prepare_redcap_data")
    /\ LET selected == set_redcap_columns(filtered_ripple_df)
       IN IF selected.exc # "none"
          THEN /\ exc' = selected.exc
               /\ pc' = after(selected.exc, "prepare_ripple")
               /\ UNCHANGED <<copy_selected_redcap_df, lookup, to_update, new_subjects, fs>>
               /\ UNCHANGED tokens
          ELSE \E answer \in answers :
                 LET split == get_redcap_subjects_to_update(selected.rows, answer)
                 IN /\ copy_selected_redcap_df' = selected.rows
                    /\ lookup' = answer
                    /\ tokens' = [tokens EXCEPT !.lookup = lookup_token(project_status)]
                    /\ exc' = split.exc
                    /\ pc' = after(split.exc, "prepare_ripple")
                    /\ to_update' = split.to_update
                    /\ new_subjects' = split.new_subjects
                    /\ fs' = IF split.exc = "none"
                             THEN save_partitions(fs, split.to_update, split.new_subjects)
                             ELSE fs
    /\ filtered_ripple_df' = input_after_set_redcap_columns(filtered_ripple_df)
    /\ UNCHANGED <<study_ids, ripple_df, outcome, ripple_import_files, posts>>
    /\ UNCHANGED <<run, before, other, project_status, imported>>

\* main, line 318, REDCap holding any records the domains allow
PrepareRedcapData == PrepareRedcapDataWith(Lookups)

\* main, line 319: prepare_ripple_to_ripple(filtered_ripple_df); written is
\* the number of studies whose file is on disk when the call ends, the next
\* to_excel having failed when that is not all of them
PrepareRippleToRipple ==
    /\ pc = "prepare_ripple"
    /\ invoked' = Append(invoked, "prepare_ripple_to_ripple")
    /\ LET studies == import_types(filtered_ripple_df)
       IN \E written \in 0..Len(studies) :
            /\ fs' = write_ripple_files(fs, filtered_ripple_df, studies, written)
            /\ IF written = Len(studies)
               THEN /\ ripple_import_files' =
                         [i \in 1..Len(studies) |-> <<studies[i], xlsx_path(studies[i])>>]
                    /\ exc' = "none"
                    /\ pc' = after("none", "push")
               ELSE /\ ripple_import_files' = ripple_import_files
                    /\ exc' = "OSError"
                    /\ pc' = after("OSError", "push")
    /\ UNCHANGED <<study_ids, ripple_df, outcome, filtered_ripple_df, copy_selected_redcap_df,
                   lookup, to_update, new_subjects, posts>>
    /\ UNCHANGED <<run, before, other, project_status, imported>>
    /\ UNCHANGED tokens

\* ----------------------------------------------------------- push_to_redcap
\* what a remote call can end in
Responses == {"ok", "HTTPError", "ConnectionError"}

\* str(update).lower()
force_auto_number_swapped(update) == IF update THEN "true" ELSE "false"

\* str(not update).lower()
force_auto_number(update) == IF ~update THEN "true" ELSE "false"

partition_file(update) == IF update THEN redcap_update_file ELSE redcap_import_file

\* push_to_redcap without r.raise_for_status()
push_partition_unchecked(files, update, response) ==
    LET file == files[partition_file(update)]
    IN IF ~file.exists \/ Len(file.rows) = 0
       THEN [exc |-> "none", posts |-> <<>>]
       ELSE [exc   |-> "none",
             posts |-> <<[to              |-> "redcap",
                          forceAutoNumber |-> force_auto_number(update),
                          study           |-> "",
                          data            |-> file.rows,
                          result          |-> response]>>]

\* push_to_redcap without the check of the file: whatever the file holds is sent
push_partition_always(files, update, response) ==
    LET file == files[partition_file(update)]
    IN [exc   |-> IF response = "ok" THEN "none" ELSE response,
        posts |-> <<[to              |-> "redcap",
                     forceAutoNumber |-> force_auto_number(update),
                     study           |-> "",
                     data            |-> file.rows,
                     result          |-> response]>>]

\* push_to_redcap(project_token, update) for one partition: nothing is sent
\* when the file is absent or empty, else one import request is sent and a
\* failed one raises
push_partition(files, update, response) ==
    LET file == files[partition_file(update)]
    IN IF ~file.exists \/ Len(file.rows) = 0
       THEN [exc |-> "none", posts |-> <<>>]
       ELSE [exc   |-> IF response = "ok" THEN "none" ELSE response,
             posts |-> <<[to              |-> "redcap",
                          forceAutoNumber |-> force_auto_number(update),
                          study           |-> "",
                          data            |-> file.rows,
                          result          |-> response]>>]

\* a loop over [True, False] that goes on after a failure and raises at the end
push_to_redcap_continuing(files, first, second) ==
    LET upd == push_partition(files, TRUE, first)
        new == push_partition(files, FALSE, second)
    IN [exc   |-> IF upd.exc # "none" THEN upd.exc ELSE new.exc,
        posts |-> upd.posts \o new.posts]

\* push_to_redcap(project_token): update first, then create
push_to_redcap(files, first, second) ==
    LET upd == push_partition(files, TRUE, first)
    IN IF upd.exc # "none" THEN upd
       ELSE LET new == push_partition(files, FALSE, second)
            IN [exc |-> new.exc, posts |-> upd.posts \o new.posts]

\* main, line 320: push_to_redcap(project[project_status]["token"])
PushToRedcap ==
    /\ pc = "push"
    /\ invoked' = Append(invoked, "push_to_redcap")
    /\ \E first, second \in Responses :
         LET pushed == push_to_redcap(fs, first, second)
         IN /\ posts' = posts \o pushed.posts
            /\ exc' = pushed.exc
            /\ pc' = after(pushed.exc,
                            IF Len(ripple_import_files) = 0 THEN "cleanup" ELSE "status")
    /\ tokens' = [tokens EXCEPT !.push = project_token(project_status)]
    /\ UNCHANGED <<study_ids, ripple_df, outcome, filtered_ripple_df, copy_selected_redcap_df,
                   lookup, to_update, new_subjects, fs, ripple_import_files>>
    /\ UNCHANGED <<run, before, other, project_status, imported>>

\* ----------------------------------------------------- set_status_in_ripple
\* set_status_in_ripple without the look at the DataFrame: the file is sent
\* whatever it holds
set_status_in_ripple_unread(files, ripple_study, ripple_import_file, response) ==
    LET file == files[ripple_import_file]
    IN IF ~file.exists THEN [exc |-> "FileNotFoundError", posts |-> <<>>]
       ELSE [exc   |-> IF response = "ok" THEN "none" ELSE "RequestException",
             posts |-> <<[to              |-> "ripple",
                          forceAutoNumber |-> "",
                          study           |-> ripple_study,
                          data            |-> file.rows,
                          result          |-> response]>>]

\* set_status_in_ripple logging a failed request instead of raising
set_status_in_ripple_logging_failure(files, ripple_study, ripple_import_file, response) ==
    LET file == files[ripple_import_file]
    IN IF ~file.exists THEN [exc |-> "FileNotFoundError", posts |-> <<>>]
       ELSE IF Len(file.rows) = 0 THEN [exc |-> "none", posts |-> <<>>]
       ELSE [exc   |-> "none",
             posts |-> <<[to              |-> "ripple",
                          forceAutoNumber |-> "",
                          study           |-> ripple_study,
                          data            |-> file.rows,
                          result          |-> response]>>]

set_status_in_ripple(files, ripple_study, ripple_import_file, response) ==
    LET file == files[ripple_import_file]
    IN IF ~file.exists THEN [exc |-> "FileNotFoundError", posts |-> <<>>]
       ELSE IF Len(file.rows) = 0 THEN [exc |-> "none", posts |-> <<>>]
       ELSE [exc   |-> IF response = "ok" THEN "none" ELSE "RequestException",
             posts |-> <<[to              |-> "ripple",
                          forceAutoNumber |-> "",
                          study           |-> ripple_study,
                          data            |-> file.rows,
                          result          |-> response]>>]

\* the number of iterations of main's write-back loop that have run
statuses_set == Cardinality({k \in 1..Len(invoked) : invoked[k] = "set_status_in_ripple"})

\* main, lines 321-322: one iteration of the loop over ripple_import_files
SetStatusInRipple ==
    /\ pc = "status"
    /\ statuses_set < Len(ripple_import_files)
    /\ invoked' = Append(invoked, "set_status_in_ripple")
    /\ LET item == ripple_import_files[statuses_set + 1]
       IN \E response \in Responses :
            LET set == set_status_in_ripple(fs, item[1], item[2], response)
            IN /\ posts' = posts \o set.posts
               /\ exc' = set.exc
               /\ pc' = after(set.exc,
                               IF statuses_set + 1 = Len(ripple_import_files)
                               THEN "cleanup" ELSE "status")
    /\ UNCHANGED <<study_ids, ripple_df, outcome, filtered_ripple_df, copy_selected_redcap_df,
                   lookup, to_update, new_subjects, fs, ripple_import_files>>
    /\ UNCHANGED <<run, before, other, project_status, imported>>
    /\ UNCHANGED tokens

\* main, lines 325-326: finally: cleanup(list(ripple_import_files.values()))
Cleanup ==
    /\ pc = "cleanup"
    /\ invoked' = Append(invoked, "cleanup")
    /\ fs' = cleanup(fs, [i \in 1..Len(ripple_import_files) |-> ripple_import_files[i][2]])
    /\ pc' = "exit"
    /\ UNCHANGED <<study_ids, ripple_df, exc, outcome, filtered_ripple_df, copy_selected_redcap_df,
                   lookup, to_update, new_subjects, ripple_import_files, posts>>
    /\ UNCHANGED <<run, before, other, project_status, imported>>
    /\ UNCHANGED tokens

\* except Exception: pass
swallowed_any(e) == TRUE

\* main, lines 323-324: except NoData: pass
swallowed(e) == e = "NoData"

\* main ends: it returns, or the exception in flight reaches the caller
Exit ==
    /\ pc = "exit"
    /\ outcome' = IF exc = "none" \/ swallowed(exc) THEN "returned" ELSE "raised"
    /\ pc' = "done"
    /\ UNCHANGED <<study_ids, ripple_df, exc, filtered_ripple_df, copy_selected_redcap_df, lookup,
                   to_update, new_subjects, fs, ripple_import_files, invoked, posts>>
    /\ UNCHANGED <<run, before, other, project_status, imported>>
    /\ UNCHANGED tokens

Next ==
    \/ Request
    \/ RequestFails
    \/ PrepareRedcapData
    \/ PrepareRippleToRipple
    \/ PushToRedcap
    \/ SetStatusInRipple
    \/ Cleanup
    \/ Exit

Spec == Init /\ [][Next]_vars

\* ====================================================================
\* set_redcap_columns on its own: every batch two exports of at most two
\* rows in all can be concatenated and filtered into, over all contact groups
\* ====================================================================
ColumnSplits == {<<0, 0>>, <<1, 0>>, <<0, 1>>, <<1, 1>>, <<2, 0>>, <<0, 2>>}

InitColumns ==
    /\ pc = "set_redcap_columns"
    /\ \E split \in ColumnSplits :
         \E m \in ExportsOf(Main, split[1], Groups, ContactTypes),
            w \in ExportsOf(Waitlist, split[2], Groups, ContactTypes) :
              LET got == request_potential_participants(<<m, w>>)
              IN /\ got.exc = "none"
                 /\ filtered_ripple_df = got.df
    /\ study_ids = Range(StudyOrder)
    /\ exc = "none"
    /\ ripple_df = Unread
    /\ outcome = "running"
    /\ copy_selected_redcap_df = <<>>
    /\ lookup = NoLookup
    /\ to_update = <<>>
    /\ new_subjects = <<>>
    /\ fs = [p \in Paths |-> Absent]
    /\ ripple_import_files = <<>>
    /\ invoked = <<>>
    /\ posts = <<>>
    /\ run = 1
    /\ project_status = "prod"
    /\ tokens = NoTokens
    /\ imported = NotImported
    /\ before = Untracked
    /\ other = NoOther

\* prepare_redcap_data, line 126: set_redcap_columns(df)
SetRedcapColumns ==
    /\ pc = "set_redcap_columns"
    /\ LET selected == set_redcap_columns(filtered_ripple_df)
       IN /\ exc' = selected.exc
          /\ copy_selected_redcap_df' = selected.rows
    /\ invoked' = Append(invoked, "set_redcap_columns")
    /\ pc' = "columns_set"
    /\ filtered_ripple_df' = input_after_set_redcap_columns(filtered_ripple_df)
    /\ UNCHANGED <<study_ids, ripple_df, outcome, lookup, to_update,
                   new_subjects, fs, ripple_import_files, posts>>
    /\ UNCHANGED <<run, before, other, project_status, imported>>
    /\ UNCHANGED tokens

NextColumns == SetRedcapColumns

SpecColumns == InitColumns /\ [][NextColumns]_vars

\* ====================================================================
\* push_to_redcap on its own, as a caller can meet it: the two partition
\* files hold what prepare_redcap_data saved for the partitions, and where
\* a partition has no row its file is absent or exists without content
\* ====================================================================
\* the rows a partition file can hold
PushRows ==
    {[record_id |-> r, mrn |-> m, email_consent |-> e] :
        r \in DestRecordIds \cup DestMrns, m \in DestMrns, e \in {NoAddr, 1}}

Partitions == {<<>>} \cup {<<r>> : r \in PushRows}

\* the file of a partition: what to_csv wrote for a partition with rows,
\* no file or a file of size 0 for a partition without
StagedFiles(rows) == IF Len(rows) > 0 THEN {File(rows)} ELSE {Absent, File(<<>>)}

InitPush ==
    /\ pc = "push"
    /\ to_update \in Partitions
    /\ new_subjects \in Partitions
    /\ \E upd \in StagedFiles(to_update), new \in StagedFiles(new_subjects) :
         fs = [p \in Paths |-> IF p = redcap_update_file THEN upd
                               ELSE IF p = redcap_import_file THEN new
                               ELSE Absent]
    /\ study_ids = Range(StudyOrder)
    /\ exc = "none"
    /\ ripple_df = Unread
    /\ outcome = "running"
    /\ filtered_ripple_df = NoFrame
    /\ copy_selected_redcap_df = <<>>
    /\ lookup = NoLookup
    /\ ripple_import_files = <<>>
    /\ invoked = <<>>
    /\ posts = <<>>
    /\ run = 1
    /\ project_status = "prod"
    /\ tokens = NoTokens
    /\ imported = NotImported
    /\ before = Untracked
    /\ other = NoOther

\* push_to_redcap(project_token), update = None
PushBoth ==
    /\ pc = "push"
    /\ invoked' = Append(invoked, "push_to_redcap")
    /\ \E first, second \in Responses :
         LET pushed == push_to_redcap(fs, first, second)
         IN /\ posts' = posts \o pushed.posts
            /\ exc' = pushed.exc
    /\ pc' = "pushed"
    /\ UNCHANGED <<study_ids, ripple_df, outcome, filtered_ripple_df, copy_selected_redcap_df,
                   lookup, to_update, new_subjects, fs, ripple_import_files>>
    /\ UNCHANGED <<run, before, other, project_status, imported>>
    /\ UNCHANGED tokens

NextPush == PushBoth

SpecPush == InitPush /\ [][NextPush]_vars

\* ====================================================================
\* Runs of main one after another against the same Ripple and REDCap: each
\* run exports what Ripple holds and looks up what REDCap holds at that
\* moment, and the requests the two systems accept change what they hold
\* ====================================================================
\* runs of main in a row
MaxRuns == 2

\* a participant of a Ripple study; label is the participant's place in the
\* study's export
Participant(study, label, customId, consent, type) ==
    [study |-> study, label |-> label, globalId |-> <<study, label>>,
     customId |-> customId, consent |-> consent, type |-> type]

\* what Ripple holds when the first run starts: two participants with
\* different customIds, two with the same customId, participants of both
\* studies
Registries ==
    {<<Participant(Main, 0, <<"7">>, SendToRedCap, "email"),
       Participant(Main, 1, <<"1", "2">>, SendToRedCap, "email")>>,
     <<Participant(Main, 0, <<"7">>, SendToRedCap, "email"),
       Participant(Main, 1, <<"7">>, SendToRedCap, "phone")>>,
     <<Participant(Main, 0, <<"9">>, "Pending", "email"),
       Participant(Main, 1, <<"7">>, SendToRedCap, "email"),
       Participant(Waitlist, 0, <<"1", "2">>, SendToRedCap, "email")>>}

\* what REDCap holds when the first run starts: one record per mrn
InitialRedcaps ==
    {<<[record_id |-> 1, mrn |-> 12]>>,
     <<[record_id |-> 1, mrn |-> 5]>>}

\* Endpoints.Ripple.export_from_ripple(ripple_study, ...): the participants
\* of the study, whatever their consent label
export_from_ripple(registry, study) ==
    LET mine == SelectSeq(registry, LAMBDA p : p.study = study)
        rows == [i \in 1..Len(mine) |->
                    SourceRow(study, mine[i].label, mine[i].customId, mine[i].consent,
                              [g \in Groups |-> IF g = 1 THEN mine[i].type ELSE NaN])]
    IN [columns |-> ExportColumns(rows), rows |-> rows]

\* Ripple's import: an accepted file sets the consent label of the
\* participants it lists
ripple_import(registry, post) ==
    IF post.to # "ripple" \/ post.result # "ok" THEN registry
    ELSE [i \in 1..Len(registry) |->
            IF \E k \in 1..Len(post.data) : post.data[k].globalId = registry[i].globalId
            THEN [registry[i] EXCEPT !.consent =
                     post.data[CHOOSE k \in 1..Len(post.data) :
                                  post.data[k].globalId = registry[i].globalId].consent]
            ELSE registry[i]]

NextRecordId(records) ==
    IF Len(records) = 0 THEN 1
    ELSE 1 + (CHOOSE m \in {records[i].record_id : i \in 1..Len(records)} :
                 \A i \in 1..Len(records) : records[i].record_id <= m)

\* REDCap's record import, overwriteBehavior normal: with forceAutoNumber
\* "true" every row becomes a new record with the next free record_id, with
\* "false" a row overwrites the record that has its record_id, or becomes
\* that record
RECURSIVE redcap_import_rows(_, _, _)
redcap_import_rows(records, rows, auto) ==
    IF Len(rows) = 0 THEN records
    ELSE LET row == Head(rows)
             held == \E i \in 1..Len(records) : records[i].record_id = row.record_id
             next ==
                 IF auto
                 THEN Append(records, [record_id |-> NextRecordId(records), mrn |-> row.mrn])
                 ELSE IF held
                 THEN [i \in 1..Len(records) |->
                          IF records[i].record_id = row.record_id
                          THEN [record_id |-> row.record_id, mrn |-> row.mrn]
                          ELSE records[i]]
                 ELSE Append(records, [record_id |-> row.record_id, mrn |-> row.mrn])
         IN redcap_import_rows(next, Tail(rows), auto)

redcap_import(records, post) ==
    IF post.to # "redcap" \/ post.result # "ok" THEN records
    ELSE redcap_import_rows(records, post.data, post.forceAutoNumber = "true")

\* what the two systems hold after the requests sent so far
RECURSIVE ripple_after(_, _)
ripple_after(registry, sent) ==
    IF Len(sent) = 0 THEN registry
    ELSE ripple_after(ripple_import(registry, Head(sent)), Tail(sent))

RECURSIVE redcap_after(_, _)
redcap_after(records, sent) ==
    IF Len(sent) = 0 THEN records
    ELSE redcap_after(redcap_import(records, Head(sent)), Tail(sent))

\* fetch_api_data on REDCap's record export: the records, or pd.DataFrame()
\* when REDCap answers with nothing
fetch_api_data(records) ==
    IF Len(records) = 0 THEN NoLookup ELSE [empty |-> FALSE, rows |-> records]

\* the participants of the batch whose mrn REDCap accepted in an import
\* request of this run
SentBy(df, sent) ==
    {df.rows[i].globalId : i \in
        {i \in 1..Len(df.rows) :
            /\ IsNumeric(df.rows[i].customId)
            /\ \E k \in 1..Len(sent) :
                  /\ sent[k].to = "redcap"
                  /\ sent[k].result = "ok"
                  /\ \E j \in 1..Len(sent[k].data) :
                        sent[k].data[j].mrn = to_mrn(df.rows[i].customId)}}

\* the participants listed in a write-back file Ripple accepted in this run
WrittenBy(sent) ==
    UNION {{sent[k].data[j].globalId : j \in 1..Len(sent[k].data)} :
              k \in {k \in 1..Len(sent) : sent[k].to = "ripple" /\ sent[k].result = "ok"}}

InitRuns ==
    /\ pc = "request"
    /\ study_ids = Range(StudyOrder)
    /\ exc = "none"
    /\ ripple_df = Unread
    /\ outcome = "running"
    /\ filtered_ripple_df = NoFrame
    /\ copy_selected_redcap_df = <<>>
    /\ lookup = NoLookup
    /\ to_update = <<>>
    /\ new_subjects = <<>>
    /\ fs = [p \in Paths |-> Absent]
    /\ ripple_import_files = <<>>
    /\ invoked = <<>>
    /\ posts = <<>>
    /\ run = 1
    /\ project_status = "prod"
    /\ tokens = NoTokens
    /\ imported = NotImported
    /\ \E registry \in Registries, records \in InitialRedcaps :
         before = [ripple |-> registry, redcap |-> records, sent |-> {}, written |-> {}]
    /\ other = NoOther

\* main, line 317: every configured study exports what Ripple holds
RunRequest ==
    RequestWith({[i \in 1..Len(configured(study_ids)) |->
                     export_from_ripple(before.ripple, configured(study_ids)[i])]})

\* main, line 318: the lookup returns what REDCap holds, or fails
RunPrepareRedcapData ==
    PrepareRedcapDataWith({fetch_api_data(before.redcap), NoLookup})

\* the scheduler starts main again after the run has ended; the files the
\* run left on disk are still there
NewRun ==
    /\ pc = "done"
    /\ run < MaxRuns
    /\ run' = run + 1
    /\ before' = [ripple  |-> ripple_after(before.ripple, posts),
                  redcap  |-> redcap_after(before.redcap, posts),
                  sent    |-> before.sent \cup SentBy(filtered_ripple_df, posts),
                  written |-> before.written \cup WrittenBy(posts)]
    /\ pc' = "request"
    /\ exc' = "none"
    /\ ripple_df' = Unread
    /\ outcome' = "running"
    /\ filtered_ripple_df' = NoFrame
    /\ copy_selected_redcap_df' = <<>>
    /\ lookup' = NoLookup
    /\ to_update' = <<>>
    /\ new_subjects' = <<>>
    /\ ripple_import_files' = <<>>
    /\ invoked' = <<>>
    /\ posts' = <<>>
    /\ tokens' = NoTokens
    /\ UNCHANGED <<study_ids, fs, other, project_status, imported>>

NextRuns ==
    \/ RunRequest
    \/ RequestFails
    \/ RunPrepareRedcapData
    \/ PrepareRippleToRipple
    \/ PushToRedcap
    \/ SetStatusInRipple
    \/ Cleanup
    \/ Exit
    \/ NewRun

SpecRuns == InitRuns /\ [][NextRuns]_vars

\* ====================================================================
\* Two runs of main that overlap: the run followed in full, and a second
\* run working in the same directory on a batch of its own
\* ====================================================================
\* the second run's batch: one new participant of HBN - Main
OtherToUpdate == <<>>
OtherNewSubjects == <<[record_id |-> 5, mrn |-> 5, email_consent |-> 1]>>
OtherBatch ==
    [columns |-> <<1>>,
     rows    |-> <<SourceRow(Main, 9, <<"5">>, SendToRedCap,
                             [g \in Groups |-> IF g = 1 THEN "email" ELSE NaN])>>]

InitOverlap ==
    /\ pc = "request"
    /\ study_ids = {Main}
    /\ exc = "none"
    /\ ripple_df = Unread
    /\ outcome = "running"
    /\ filtered_ripple_df = NoFrame
    /\ copy_selected_redcap_df = <<>>
    /\ lookup = NoLookup
    /\ to_update = <<>>
    /\ new_subjects = <<>>
    /\ fs = [p \in Paths |-> Absent]
    /\ ripple_import_files = <<>>
    /\ invoked = <<>>
    /\ posts = <<>>
    /\ run = 1
    /\ project_status = "prod"
    /\ tokens = NoTokens
    /\ imported = NotImported
    /\ before = Untracked
    /\ other = [pc |-> "request", pushed |-> <<>>, files |-> <<>>]

OtherOnly ==
    UNCHANGED <<pc, study_ids, exc, ripple_df, outcome, filtered_ripple_df,
                copy_selected_redcap_df, lookup, to_update, new_subjects,
                ripple_import_files, invoked, posts, run, before,
                project_status, tokens, imported>>

\* second run, line 317: its batch, or NoData
OtherRequest ==
    /\ other.pc = "request"
    /\ \E next \in {"prepare_redcap", "cleanup"} : other' = [other EXCEPT !.pc = next]
    /\ UNCHANGED fs
    /\ OtherOnly

\* second run, line 318: prepare_redcap_data saves its partitions
OtherPrepareRedcapData ==
    /\ other.pc = "prepare_redcap"
    /\ fs' = save_partitions(fs, OtherToUpdate, OtherNewSubjects)
    /\ other' = [other EXCEPT !.pc = "prepare_ripple"]
    /\ OtherOnly

\* second run, line 319: prepare_ripple_to_ripple writes its study's file
OtherPrepareRippleToRipple ==
    /\ other.pc = "prepare_ripple"
    /\ fs' = write_ripple_files(fs, OtherBatch, import_types(OtherBatch),
                                Len(import_types(OtherBatch)))
    /\ other' = [other EXCEPT !.pc = "push",
                              !.files = [i \in 1..Len(import_types(OtherBatch)) |->
                                            xlsx_path(import_types(OtherBatch)[i])]]
    /\ OtherOnly

\* second run, line 320: push_to_redcap sends what the partition files hold
OtherPushToRedcap ==
    /\ other.pc = "push"
    /\ other' = [other EXCEPT !.pc = "status",
                              !.pushed = @ \o push_to_redcap(fs, "ok", "ok").posts]
    /\ UNCHANGED fs
    /\ OtherOnly

\* second run, lines 321-322: set_status_in_ripple sends what its file holds
OtherSetStatusInRipple ==
    /\ other.pc = "status"
    /\ other' = [other EXCEPT !.pc = "cleanup",
                              !.pushed = @ \o set_status_in_ripple(fs, Main, other.files[1],
                                                                   "ok").posts]
    /\ UNCHANGED fs
    /\ OtherOnly

\* second run, lines 325-326: cleanup
OtherCleanup ==
    /\ other.pc = "cleanup"
    /\ fs' = cleanup(fs, other.files)
    /\ other' = [other EXCEPT !.pc = "done"]
    /\ OtherOnly

NextOverlap ==
    \/ Request
    \/ RequestFails
    \/ PrepareRedcapData
    \/ PrepareRippleToRipple
    \/ PushToRedcap
    \/ SetStatusInRipple
    \/ Cleanup
    \/ Exit
    \/ OtherRequest
    \/ OtherPrepareRedcapData
    \/ OtherPrepareRippleToRipple
    \/ OtherPushToRedcap
    \/ OtherSetStatusInRipple
    \/ OtherCleanup

SpecOverlap == InitOverlap /\ [][NextOverlap]_vars

\* ====================================================================
\* set_status_in_ripple on its own, as a caller can meet it: the file it is
\* given is missing, holds a sheet without rows, or holds rows staged for
\* the study
\* ====================================================================
\* the globalId labels a staged row can carry
StatusLabels == 0..3

\* the sheets a file staged for the study can hold: two rows at most
StatusSheets(study) ==
    LET row(label) == [globalId |-> <<study, label>>, consent |-> CreatedInRedcap,
                       importType |-> study]
    IN {<<>>} \cup {<<row(a)>> : a \in StatusLabels}
              \cup {<<row(a), row(b)>> : a \in StatusLabels, b \in StatusLabels}

InitStatus ==
    /\ pc = "status"
    /\ \E study \in Range(StudyOrder) :
         /\ ripple_import_files = <<<<study, xlsx_path(study)>>>>
         /\ \E file \in {Absent} \cup {File(sheet) : sheet \in StatusSheets(study)} :
              fs = [p \in Paths |-> IF p = xlsx_path(study) THEN file ELSE Absent]
    /\ study_ids = Range(StudyOrder)
    /\ exc = "none"
    /\ ripple_df = Unread
    /\ outcome = "running"
    /\ filtered_ripple_df = NoFrame
    /\ copy_selected_redcap_df = <<>>
    /\ lookup = NoLookup
    /\ to_update = <<>>
    /\ new_subjects = <<>>
    /\ invoked = <<>>
    /\ posts = <<>>
    /\ run = 1
    /\ project_status = "prod"
    /\ tokens = NoTokens
    /\ imported = NotImported
    /\ before = Untracked
    /\ other = NoOther

\* one call of set_status_in_ripple(ripple_study, ripple_import_file)
NextStatus == SetStatusInRipple

SpecStatus == InitStatus /\ [][NextStatus]_vars

\* ====================================================================
\* main called with either project_status, the one study group HBN - Main
\* being configured
\* ====================================================================
InitProject ==
    /\ pc = "request"
    /\ project_status \in {"dev", "prod"}
    /\ study_ids = {Main}
    /\ exc = "none"
    /\ ripple_df = Unread
    /\ outcome = "running"
    /\ filtered_ripple_df = NoFrame
    /\ copy_selected_redcap_df = <<>>
    /\ lookup = NoLookup
    /\ to_update = <<>>
    /\ new_subjects = <<>>
    /\ fs = [p \in Paths |-> Absent]
    /\ ripple_import_files = <<>>
    /\ invoked = <<>>
    /\ posts = <<>>
    /\ run = 1
    /\ tokens = NoTokens
    /\ imported = NotImported
    /\ before = Untracked
    /\ other = NoOther

SpecProject == InitProject /\ [][Next]_vars

\* ====================================================================
\* ImportWithFallback on its own: one call of literal or module, the
\* primary and the fallback each loading or failing in one of the ways an
\* import can fail
\* ====================================================================
\* what importing a module and reading a name from it can end in: the value,
\* no such module, an import that fails, no such name, or an error raised by
\* the module's own code while it is executed
LoadOutcomes ==
    {"loaded", "ModuleNotFoundError", "ImportError", "AttributeError",
     "SyntaxError", "KeyError"}

\* the names _config_variables resolves with literal, and with module
LiteralNames == {"column_dict", "headers", "study_ids", "ripple_import_file"}
ModuleNames == {"Endpoints"}

\* _import_any: getattr(importlib.import_module(module, ...), name)
import_any(load, source) ==
    IF load = "loaded" THEN [exc |-> "none", value |-> source]
    ELSE [exc |-> load, value |-> ""]

\* except (ImportError, ModuleNotFoundError, AttributeError)
handled(e) == e \in {"ImportError", "ModuleNotFoundError", "AttributeError"}

\* ImportWithFallback.module
module(primary, fallback) ==
    LET first == import_any(primary, "primary")
    IN IF first.exc = "none" THEN first
       ELSE IF handled(first.exc) THEN import_any(fallback, "fallback")
       ELSE first

\* ImportWithFallback.literal
literal(primary) ==
    LET first == import_any(primary, "primary")
    IN IF first.exc = "none" THEN first
       ELSE IF handled(first.exc) THEN [exc |-> "none", value |-> "fallback"]
       ELSE first

InitImport ==
    /\ pc = "import"
    /\ imported \in
          {[method |-> "literal", name |-> n, primary |-> p, fallback |-> "loaded",
            exc |-> "", value |-> ""] : n \in LiteralNames, p \in LoadOutcomes}
          \cup
          {[method |-> "module", name |-> n, primary |-> p, fallback |-> f,
            exc |-> "", value |-> ""] :
              n \in ModuleNames, p \in LoadOutcomes, f \in LoadOutcomes}
    /\ project_status = "prod"
    /\ study_ids = Range(StudyOrder)
    /\ exc = "none"
    /\ ripple_df = Unread
    /\ outcome = "running"
    /\ filtered_ripple_df = NoFrame
    /\ copy_selected_redcap_df = <<>>
    /\ lookup = NoLookup
    /\ to_update = <<>>
    /\ new_subjects = <<>>
    /\ fs = [p \in Paths |-> Absent]
    /\ ripple_import_files = <<>>
    /\ invoked = <<>>
    /\ posts = <<>>
    /\ run = 1
    /\ tokens = NoTokens
    /\ before = Untracked
    /\ other = NoOther

\* one call of ImportWithFallback.literal or ImportWithFallback.module
Import ==
    /\ pc = "import"
    /\ LET got == IF imported.method = "literal" THEN literal(imported.primary)
                  ELSE module(imported.primary, imported.fallback)
       IN imported' = [imported EXCEPT !.exc = got.exc, !.value = got.value]
    /\ pc' = "imported"
    /\ UNCHANGED <<study_ids, exc, ripple_df, outcome, filtered_ripple_df,
                   copy_selected_redcap_df, lookup, to_update, new_subjects, fs,
                   ripple_import_files, invoked, posts, run, before, other,
                   project_status, tokens>>

NextImport == Import

SpecImport == InitImport /\ [][NextImport]_vars

\* ====================================================================
\* Properties
\* ====================================================================
Count(seq, x) == Len(SelectSeq(seq, LAMBDA y : y = x))
PostsTo(system) == SelectSeq(posts, LAMBDA p : p.to = system)
FailedPosts(system) == SelectSeq(posts, LAMBDA p : p.to = system /\ p.result # "ok")
LabelsUnique(df) == \A i \in 1..Len(df.rows) : ~duplicated_label(df, df.rows[i])
AllNumeric(df) == \A i \in 1..Len(df.rows) : IsNumeric(df.rows[i].customId)
EmailGroups(row) == {g \in Groups : row.contactType[g] = "email"}
Lowest(S) == CHOOSE g \in S : \A h \in S : g <= h

\* C1: a write-back (a call of set_status_in_ripple, a request to Ripple) is
\* issued only after push_to_redcap has been called and every import request
\* it sent has succeeded, so that the requests to Ripple all come after the
\* requests to REDCap; a run in which an import request failed issues none.
C1_WritebackOnlyAfterPush ==
    /\ (Count(invoked, "set_status_in_ripple") > 0 \/ Len(PostsTo("ripple")) > 0) =>
          /\ Count(invoked, "push_to_redcap") = 1
          /\ Len(FailedPosts("redcap")) = 0
          /\ \A i, j \in 1..Len(posts) :
                (posts[i].to = "ripple" /\ posts[j].to = "redcap") => j < i
          /\ \A i, j \in 1..Len(invoked) :
                (invoked[i] = "set_status_in_ripple" /\ invoked[j] = "push_to_redcap") => j < i
    /\ Len(FailedPosts("redcap")) > 0 =>
          /\ Count(invoked, "set_status_in_ripple") = 0
          /\ Len(PostsTo("ripple")) = 0

\* both partitions were pushed, then a study was written back
C1_Witness ==
    /\ Len(PostsTo("redcap")) = 2
    /\ Len(PostsTo("ripple")) > 0

\* C2: cleanup runs at most once in a run, and when an error reaches the
\* caller of main cleanup has run exactly once and was the last call made.
C2_CleanupOnceBeforeRaise ==
    /\ Count(invoked, "cleanup") <= 1
    /\ (pc \in {"exit", "done"} /\ exc \notin {"none", "NoData"}) =>
          /\ Count(invoked, "cleanup") = 1
          /\ invoked[Len(invoked)] = "cleanup"
    /\ outcome = "raised" =>
          /\ Count(invoked, "cleanup") = 1
          /\ invoked[Len(invoked)] = "cleanup"

\* a write-back failed, cleanup ran and the error reached the caller
C2_Witness ==
    /\ outcome = "raised"
    /\ Len(invoked) > 1
    /\ invoked[Len(invoked) - 1] = "set_status_in_ripple"
    /\ Count(invoked, "cleanup") = 1

\* the extraction came back with no row marked "Send to RedCap"
NoEligibleRows ==
    /\ ripple_df.read
    /\ \A i \in 1..Len(ripple_df.consent_form) : ripple_df.consent_form[i] # SendToRedCap

\* C3: when the extraction returns no row, or only rows not marked "Send to
\* RedCap", main calls neither prepare_redcap_data nor push_to_redcap nor
\* set_status_in_ripple, sends no request, runs cleanup once and returns.
C3_NoDataShortCircuit ==
    NoEligibleRows =>
        /\ Count(invoked, "prepare_redcap_data") = 0
        /\ Count(invoked, "prepare_ripple_to_ripple") = 0
        /\ Count(invoked, "push_to_redcap") = 0
        /\ Count(invoked, "set_status_in_ripple") = 0
        /\ posts = <<>>
        /\ pc # "request" => exc = "NoData"
        /\ pc = "done" =>
              /\ outcome = "returned"
              /\ invoked = <<"request_potential_participants", "cleanup">>

\* rows were exported, none of them eligible, and main has returned
C3_Witness ==
    /\ pc = "done"
    /\ NoEligibleRows
    /\ Len(ripple_df.consent_form) > 0
    /\ outcome = "returned"

\* the calls of a run in which every stage succeeded
SuccessfulCalls ==
    <<"request_potential_participants", "prepare_redcap_data",
      "prepare_ripple_to_ripple", "push_to_redcap">>
    \o [i \in 1..Len(import_types(filtered_ripple_df)) |-> "set_status_in_ripple"]
    \o <<"cleanup">>

\* C4: main returns only when NoData was raised or every stage ran and
\* succeeded; any other exception, and any failed request, ends the run with
\* the error raised to the caller.
C4_OnlyNoDataSwallowed ==
    pc = "done" =>
        /\ outcome \in {"returned", "raised"}
        /\ outcome = "returned" =>
              \/ exc = "NoData"
              \/ /\ exc = "none"
                 /\ invoked = SuccessfulCalls
                 /\ Len(FailedPosts("redcap")) = 0
                 /\ Len(FailedPosts("ripple")) = 0
        /\ exc \notin {"none", "NoData"} => outcome = "raised"
        /\ Len(FailedPosts("redcap")) + Len(FailedPosts("ripple")) > 0 => outcome = "raised"

\* an import request was refused and the error reached the caller
C4_Witness ==
    /\ pc = "done"
    /\ outcome = "raised"
    /\ exc = "HTTPError"

\* C5: when main has returned or raised, no transient file exists: neither
\* partition file nor any study's .xlsx file.
C5_NoTransientFileLeft ==
    pc = "done" => \A p \in Paths : ~fs[p].exists

\* C6: the update and the create partition hold together the mrn values of
\* the projected batch, each as often as the batch does, and share no mrn.
C6_PartitionCoversBatch ==
    Count(invoked, "prepare_redcap_data") = 1 /\ exc = "none" =>
        /\ \A m \in DestMrns :
              Cardinality({i \in 1..Len(to_update) : to_update[i].mrn = m})
              + Cardinality({i \in 1..Len(new_subjects) : new_subjects[i].mrn = m})
              = Cardinality({i \in 1..Len(copy_selected_redcap_df) :
                                copy_selected_redcap_df[i].mrn = m})
        /\ \A i \in 1..Len(to_update), j \in 1..Len(new_subjects) :
              to_update[i].mrn # new_subjects[j].mrn

\* C7: every row of the update partition carries a record_id REDCap holds for
\* the row's mrn, and every row of the create partition has record_id = mrn.
C7_UpdateCarriesDestinationId ==
    /\ \A i \in 1..Len(to_update) :
          \E d \in Range(lookup.rows) :
              d.mrn = to_update[i].mrn /\ d.record_id = to_update[i].record_id
    /\ \A j \in 1..Len(new_subjects) :
          /\ new_subjects[j].record_id = new_subjects[j].mrn
          /\ \A d \in Range(lookup.rows) : d.mrn # new_subjects[j].mrn

\* one row went to each partition
C7_Witness ==
    /\ Len(to_update) > 0
    /\ Len(new_subjects) > 0
    /\ \E i \in 1..Len(to_update) : to_update[i].record_id # to_update[i].mrn

\* C8: a record with several "email" groups gets as email_consent the
\* information cell of its lowest-numbered "email" group.
C8_LowestEmailGroupWins ==
    (pc = "columns_set" /\ exc = "none") =>
        \A i \in 1..Len(filtered_ripple_df.rows) :
            LET row == filtered_ripple_df.rows[i]
            IN Cardinality(EmailGroups(row)) >= 2 =>
                  \E r \in Range(copy_selected_redcap_df) :
                      /\ r.mrn = ToInt(row.customId)
                      /\ r.email_consent = row.information[Lowest(EmailGroups(row))]

\* C9: for a batch of well-formed customIds, a record without any "email"
\* group makes set_redcap_columns neither raise nor yield an address: the
\* record's email_consent is absent.
C9_NoEmailIsAbsent ==
    (pc = "columns_set" /\ AllNumeric(filtered_ripple_df)) =>
        \A i \in 1..Len(filtered_ripple_df.rows) :
            LET row == filtered_ripple_df.rows[i]
            IN EmailGroups(row) = {} =>
                  /\ exc = "none"
                  /\ \E r \in Range(copy_selected_redcap_df) :
                        /\ r.mrn = ToInt(row.customId)
                        /\ r.email_consent = NoAddr

\* the integer a numeric customId of the model stands for
ExpectedMrn(customId) == IF customId = <<"7">> THEN 7 ELSE 12

RedcapPosts == PostsTo("redcap")
Clean == [p \in Paths |-> Absent]

\* C11: a partition without rows is pushed without a request and without an
\* error: prepare_redcap_data saves no file for it, and push_to_redcap sends
\* nothing for a partition whose file is absent or has no content; an error
\* can only come from a request that was sent.
C11_EmptyPartitionIsNoOp ==
    /\ \A upd, new \in Partitions :
          LET saved == save_partitions(Clean, upd, new)
          IN /\ saved[redcap_update_file].exists <=> upd # <<>>
             /\ saved[redcap_import_file].exists <=> new # <<>>
    /\ pc = "pushed" =>
          /\ to_update = <<>> =>
                \A i \in 1..Len(posts) : posts[i].forceAutoNumber # "false"
          /\ new_subjects = <<>> =>
                \A i \in 1..Len(posts) : posts[i].forceAutoNumber # "true"
          /\ (to_update = <<>> /\ new_subjects = <<>>) => (posts = <<>> /\ exc = "none")
          /\ exc # "none" => (Len(posts) > 0 /\ posts[Len(posts)].result = exc)

\* the update partition was empty, its file existed without content, and
\* only the create partition was sent
C11_Witness ==
    /\ pc = "pushed"
    /\ to_update = <<>>
    /\ fs[redcap_update_file].exists
    /\ Len(posts) = 1
    /\ exc = "none"

\* C12: an import request carries forceAutoNumber "true" exactly when its
\* data is the create partition and "false" exactly when its data is the
\* update partition.
C12_AutoNumberMatchesPartition ==
    \A i \in 1..Len(RedcapPosts) :
        LET p == RedcapPosts[i]
        IN /\ p.forceAutoNumber \in {"true", "false"}
           /\ p.forceAutoNumber = "true" <=> p.data = new_subjects
           /\ p.forceAutoNumber = "false" <=> p.data = to_update

\* both partitions were sent, each in its own mode
C12_Witness ==
    /\ \E i \in 1..Len(posts) : posts[i].forceAutoNumber = "true"
    /\ \E j \in 1..Len(posts) : posts[j].forceAutoNumber = "false"

\* C13: push_to_redcap sends the update partition before the create
\* partition, each at most once; a failed import request is the last request
\* of the run and its error is the one in flight, so that after a failed
\* update the create partition is not sent.
C13_UpdateFirstFailFast ==
    Count(invoked, "push_to_redcap") = 1 =>
        /\ Len(RedcapPosts) <= 2
        /\ Len(RedcapPosts) = 2 =>
              /\ RedcapPosts[1].forceAutoNumber = "false"
              /\ RedcapPosts[2].forceAutoNumber = "true"
        /\ \A i \in 1..Len(posts) :
              (posts[i].to = "redcap" /\ posts[i].result # "ok") =>
                  /\ i = Len(posts)
                  /\ exc = posts[i].result
        /\ (to_update # <<>> /\ new_subjects # <<>>) =>
              /\ Len(RedcapPosts) >= 1
              /\ RedcapPosts[1].forceAutoNumber = "false"
              /\ Len(FailedPosts("redcap")) = 0 => Len(RedcapPosts) = 2

\* both partitions had rows, the update request failed, the run is over
C13_Witness ==
    /\ pc = "done"
    /\ to_update # <<>>
    /\ new_subjects # <<>>
    /\ Len(posts) = 1
    /\ posts[1].forceAutoNumber = "false"
    /\ posts[1].result # "ok"

\* the study groups among the rows of the extracted batch
StudiesOf(df) == {df.rows[i].importType : i \in 1..Len(df.rows)}

\* C14: when every stage of a run has succeeded, set_status_in_ripple was
\* called once for each study group that has a row in the extracted batch
\* and for no other study group.
C14_OneWritebackPerStudy ==
    (pc = "done" /\ exc = "none") =>
        /\ Count(invoked, "set_status_in_ripple") = Cardinality(StudiesOf(filtered_ripple_df))
        /\ \A study \in Range(StudyOrder) :
              Cardinality({i \in 1..Len(posts) :
                              posts[i].to = "ripple" /\ posts[i].study = study})
              = IF study \in StudiesOf(filtered_ripple_df) THEN 1 ELSE 0

\* a run over rows of both study groups succeeded
C14_Witness ==
    /\ pc = "done"
    /\ exc = "none"
    /\ StudiesOf(filtered_ripple_df) = {Main, Waitlist}

\* the batch was projected, the lookup of the run was made and came back
\* without columns: the call failed, or REDCap answered with nothing
LookupFailed ==
    /\ Count(invoked, "prepare_redcap_data") = 1
    /\ copy_selected_redcap_df # <<>>
    /\ lookup.empty

C18_ArtifactOnlyAfterPush ==
    \A study \in Range(StudyOrder) :
        fs[xlsx_path(study)].exists =>
            /\ Count(invoked, "push_to_redcap") = 1
            /\ Len(FailedPosts("redcap")) = 0

\* the record_id of the first row of the lookup that holds mrn
FirstRecordId(dest, mrn) ==
    dest[CHOOSE i \in 1..Len(dest) :
            /\ dest[i].mrn = mrn
            /\ \A j \in 1..(i - 1) : dest[j].mrn # mrn].record_id

\* C20: for each mrn the lookup holds, the update partition has as many rows
\* as the projected batch has for that mrn, each with the record_id of the
\* first row of the lookup holding the mrn.
C20_FirstMatchWins ==
    (Count(invoked, "prepare_redcap_data") = 1 /\ exc = "none") =>
        \A m \in DestMrns :
            isin(m, lookup.rows) =>
                /\ Cardinality({i \in 1..Len(to_update) : to_update[i].mrn = m})
                   = Cardinality({i \in 1..Len(copy_selected_redcap_df) :
                                     copy_selected_redcap_df[i].mrn = m})
                /\ \A i \in 1..Len(to_update) :
                      to_update[i].mrn = m =>
                          to_update[i].record_id = FirstRecordId(lookup.rows, m)

\* the participants REDCap accepted from the run in flight
SentNow == SentBy(filtered_ripple_df, posts)
\* what REDCap holds after the requests of the run in flight
RedcapNow == redcap_after(before.redcap, posts)

C16_OneRecordPerMrn ==
    \A i, j \in 1..Len(RedcapNow) :
        RedcapNow[i].mrn = RedcapNow[j].mrn => i = j

\* the partition a run sends in an import request of the given mode
OwnPartition(post, upd, new) == IF post.forceAutoNumber = "true" THEN new ELSE upd

\* the run reads only what it wrote: its requests carry its own rows
ReadsOwnFiles ==
    /\ \A i \in 1..Len(posts) :
          /\ posts[i].to = "redcap" =>
                posts[i].data = OwnPartition(posts[i], to_update, new_subjects)
          /\ posts[i].to = "ripple" =>
                posts[i].data = ripple_rows(filtered_ripple_df, posts[i].study)
    /\ \A i \in 1..Len(other.pushed) :
          /\ other.pushed[i].to = "redcap" =>
                other.pushed[i].data =
                    OwnPartition(other.pushed[i], OtherToUpdate, OtherNewSubjects)
          /\ other.pushed[i].to = "ripple" =>
                other.pushed[i].data = ripple_rows(OtherBatch, Main)

\* what the run has staged and still needs is on disk as it wrote it
StagedFilesIntact ==
    /\ (pc \in {"prepare_ripple", "push"} /\ exc = "none") =>
          /\ to_update # <<>> => fs[redcap_update_file] = File(to_update)
          /\ new_subjects # <<>> => fs[redcap_import_file] = File(new_subjects)
    /\ (pc \in {"push", "status"} /\ exc = "none") =>
          \A k \in (statuses_set + 1)..Len(ripple_import_files) :
              fs[ripple_import_files[k][2]] =
                  File(ripple_rows(filtered_ripple_df, ripple_import_files[k][1]))

\* C19: of two overlapping runs, neither reads, overwrites or deletes a file
\* the other has staged.
C19_RunsKeepFilesApart ==
    /\ ReadsOwnFiles
    /\ StagedFilesIntact

\* the files prepare_ripple_to_ripple handed to main are on disk and the
\* write-back loop has not failed
Staged ==
    /\ pc \in {"push", "status"}
    /\ exc = "none"
    /\ Len(ripple_import_files) > 0

\* the places <<k, j>> where a staged file holds the globalId
StagedPlaces(globalId) ==
    {<<k, j>> \in (1..Len(ripple_import_files)) \X (1..MaxRows) :
        /\ j <= Len(fs[ripple_import_files[k][2]].rows)
        /\ fs[ripple_import_files[k][2]].rows[j].globalId = globalId}

\* C21: the file staged for a study group holds, in batch order, one row per
\* row of the extracted batch whose importType is that group, with its
\* globalId, the label "consent_form_created_in_redcap" and the group; each
\* row of the batch is in exactly one place of the staged files, and every
\* staged row is a row of the batch.
C21_StagedRowsAreTheGroup ==
    Staged =>
        /\ \A k \in 1..Len(ripple_import_files) :
              LET study == ripple_import_files[k][1]
                  file == fs[ripple_import_files[k][2]]
                  mine == SelectSeq(filtered_ripple_df.rows,
                                    LAMBDA r : r.importType = study)
              IN /\ file.exists
                 /\ Len(file.rows) = Len(mine)
                 /\ \A j \in 1..Len(file.rows) :
                       /\ file.rows[j].globalId = mine[j].globalId
                       /\ file.rows[j].consent = CreatedInRedcap
                       /\ file.rows[j].importType = study
                       /\ \E i \in 1..Len(filtered_ripple_df.rows) :
                             filtered_ripple_df.rows[i].globalId = file.rows[j].globalId
        /\ \A i \in 1..Len(filtered_ripple_df.rows) :
              Cardinality(StagedPlaces(filtered_ripple_df.rows[i].globalId)) = 1

\* both study groups have rows in the batch and a file staged
C21_Witness ==
    /\ Staged
    /\ Len(ripple_import_files) = 2
    /\ StudiesOf(filtered_ripple_df) = {Main, Waitlist}
    /\ \A k \in 1..2 : Len(fs[ripple_import_files[k][2]].rows) > 0

RipplePosts == PostsTo("ripple")

\* C22: when a write-back request fails, it is the last request of the run:
\* set_status_in_ripple raised RequestException, the loop made no further
\* call, so the study groups after it got no request; the groups before it
\* each got one accepted request, which stays as sent; main runs cleanup
\* once and the exception reaches the caller.
C22_WritebackFailureEndsRun ==
    \A m \in 1..Len(RipplePosts) :
        RipplePosts[m].result # "ok" =>
            /\ m = Len(RipplePosts)
            /\ posts[Len(posts)] = RipplePosts[m]
            /\ exc = "RequestException"
            /\ statuses_set = m
            /\ pc \in {"cleanup", "exit", "done"}
            /\ \A j \in 1..Len(ripple_import_files) :
                  /\ j < m => /\ RipplePosts[j].result = "ok"
                              /\ RipplePosts[j].study = ripple_import_files[j][1]
                  /\ j = m => RipplePosts[j].study = ripple_import_files[j][1]
                  /\ j > m => \A k \in 1..Len(posts) :
                                  posts[k].study # ripple_import_files[j][1]
            /\ pc \in {"exit", "done"} => Count(invoked, "cleanup") = 1
            /\ pc = "done" => outcome = "raised"

\* the write-back of the first study group was accepted, that of the second
\* failed, and the run has ended
C22_Witness ==
    /\ pc = "done"
    /\ Len(RipplePosts) = 2
    /\ RipplePosts[1].result = "ok"
    /\ RipplePosts[2].result # "ok"
    /\ outcome = "raised"

\* the file set_status_in_ripple was given
GivenFile == fs[ripple_import_files[1][2]]

\* C23: after a call of set_status_in_ripple on a file that holds no row, no
\* request was sent and no exception is in flight; after any call, one
\* request was sent to Ripple, for the study and with the rows of the file,
\* when the file holds a row, and none was sent when it does not.
C23_EmptyArtifactIsNoOp ==
    Count(invoked, "set_status_in_ripple") = 1 =>
        /\ (GivenFile.exists /\ Len(GivenFile.rows) = 0) =>
              /\ posts = <<>>
              /\ exc = "none"
        /\ (GivenFile.exists /\ Len(GivenFile.rows) > 0) =>
              /\ Len(posts) = 1
              /\ posts[1].to = "ripple"
              /\ posts[1].study = ripple_import_files[1][1]
              /\ posts[1].data = GivenFile.rows
        /\ Len(posts) > 0 => (GivenFile.exists /\ Len(GivenFile.rows) > 0)

\* set_status_in_ripple was called on a sheet without rows
C23_Witness ==
    /\ Count(invoked, "set_status_in_ripple") = 1
    /\ GivenFile = File(<<>>)
    /\ posts = <<>>

\* C24: when set_redcap_columns returns, every row of its output has
\* record_id equal to mrn, the mrn being the integer some input row's
\* customId spells; no two output rows agree in record_id, mrn and
\* email_consent; and every input row has its mrn in the output.
C24_RecordIdIsMrnNoDuplicates ==
    (pc = "columns_set" /\ exc = "none") =>
        /\ \A j \in 1..Len(copy_selected_redcap_df) :
              LET r == copy_selected_redcap_df[j]
              IN /\ r.record_id = r.mrn
                 /\ \E i \in 1..Len(filtered_ripple_df.rows) :
                       r.mrn = ExpectedMrn(filtered_ripple_df.rows[i].customId)
        /\ \A j, k \in 1..Len(copy_selected_redcap_df) :
              copy_selected_redcap_df[j] = copy_selected_redcap_df[k] => j = k
        /\ \A i \in 1..Len(filtered_ripple_df.rows) :
              \E j \in 1..Len(copy_selected_redcap_df) :
                  copy_selected_redcap_df[j].mrn
                      = ExpectedMrn(filtered_ripple_df.rows[i].customId)

\* two input rows with the same customId and the same address came out as
\* one row
C24_Witness ==
    /\ pc = "columns_set"
    /\ exc = "none"
    /\ Len(filtered_ripple_df.rows) = 2
    /\ Len(copy_selected_redcap_df) = 1

OwnAddresses(row) ==
    IF EmailGroups(row) = {} THEN {NoAddr}
    ELSE {row.information[g] : g \in EmailGroups(row)}

\* C26: for every batch of numeric customIds with a contact column that
\* request_potential_participants can return, rows of two exports with the
\* same label included, set_redcap_columns ends without error and each input
\* row has an output row whose email_consent is taken from that row's own
\* contact cells.
C26_EveryBatchProjected ==
    (pc = "columns_set" /\ AllNumeric(filtered_ripple_df)
        /\ Len(filtered_ripple_df.columns) > 0) =>
        /\ exc = "none"
        /\ \A i \in 1..Len(filtered_ripple_df.rows) :
              LET row == filtered_ripple_df.rows[i]
              IN \E r \in Range(copy_selected_redcap_df) :
                    /\ r.mrn = ExpectedMrn(row.customId)
                    /\ r.email_consent \in OwnAddresses(row)

\* request_potential_participants has ended, no export call having failed
\* at transport level, and main has made no other call yet
Extracted ==
    /\ invoked = <<"request_potential_participants">>
    /\ exc # "RequestException"

\* the rows of the concatenated exports marked "Send to RedCap"
EligibleCount == Count(ripple_df.consent_form, SendToRedCap)

\* C27: request_potential_participants raises NoData exactly when the
\* exports of the configured study groups hold no row marked "Send to
\* RedCap"; otherwise it raises nothing and returns those rows, all of them
\* and no other.
C27_ExtractionExact ==
    Extracted =>
        /\ exc = "NoData" <=> EligibleCount = 0
        /\ EligibleCount > 0 =>
              /\ exc = "none"
              /\ Len(filtered_ripple_df.rows) = EligibleCount
              /\ \A i \in 1..Len(filtered_ripple_df.rows) :
                    /\ filtered_ripple_df.rows[i].consent = SendToRedCap
                    /\ filtered_ripple_df.rows[i].importType \in study_ids

\* C28: a call of ImportWithFallback ends with the primary's value whenever
\* the primary loads; whenever the primary fails to load, in any way, literal
\* ends with the default without raising, and module ends with the fallback
\* module's attribute, raising only when the fallback fails to load too.
C28_FallbackOnAnyFailure ==
    pc = "imported" =>
        /\ imported.primary = "loaded" =>
              /\ imported.exc = "none"
              /\ imported.value = "primary"
        /\ (imported.primary # "loaded" /\ imported.method = "literal") =>
              /\ imported.exc = "none"
              /\ imported.value = "fallback"
        /\ (imported.primary # "loaded" /\ imported.method = "module") =>
              /\ imported.fallback = "loaded" =>
                    /\ imported.exc = "none"
                    /\ imported.value = "fallback"
              /\ imported.exc # "none" => imported.fallback # "loaded"

\* C29: in every run of a sequence of runs, each import request sent to
\* REDCap carries the partition the run in flight computed, the update
\* partition for an update request and the create partition for a create
\* request; no partition file of an earlier run is on disk when a run starts.
C29_PushesOwnPartition ==
    /\ \A k \in 1..Len(RedcapPosts) :
          /\ RedcapPosts[k].data = OwnPartition(RedcapPosts[k], to_update, new_subjects)
          /\ RedcapPosts[k].data # <<>>
    /\ pc \in {"request", "prepare_redcap"} =>
          /\ ~fs[redcap_update_file].exists
          /\ ~fs[redcap_import_file].exists

\* a second run with an empty create partition has pushed its update
\* partition, after a run whose create partition REDCap accepted
C29_Witness ==
    /\ run = 2
    /\ Count(invoked, "push_to_redcap") = 1
    /\ exc = "none"
    /\ new_subjects = <<>>
    /\ Len(RedcapPosts) = 1
    /\ Len(before.redcap) > 1

\* C30: once main has called push_to_redcap, the token the lookup of the run
\* was made with is the token main gave to push_to_redcap.
C30_LookupAndPushSameProject ==
    Count(invoked, "push_to_redcap") = 1 => tokens.lookup = tokens.push

====
